---- MODULE Spec2Model ----
(***************************************************************************)
(* SENTINELL front-end: the upload -> pre-scan -> analyze -> display       *)
(* session state machine (App + FileUpload) and the analysis service       *)
(* client (geminiService).                                                 *)
(*                                                                         *)
(* One action is one browser task: an event handler, a FileReader          *)
(* callback, a timer callback, or the arrival of the upstream response     *)
(* together with the promise continuations (microtasks) it triggers.       *)
(***************************************************************************)
EXTENDS Integers, Sequences, FiniteSets, TLC

\* ------------------------------------------------------------------ bounds
\* number of accepted files whose FileReader, pre-scan timer or analysis
\* request is pending at the same time
MaxPending == 2
\* number of service operations invoked in one behaviour of SvcSpec
MaxSvcCalls == 3

\* ------------------------------------------------------------- JS values
\* null / undefined
Null == [kind |-> "null"]
\* a (possibly empty) string held in a nullable slot
Str(s) == [kind |-> "string", text |-> s]

\* String.prototype.startsWith over strings modelled as character sequences
StartsWith(s, p) == Len(s) >= Len(p) /\ SubSeq(s, 1, Len(p)) = p

\* ------------------------------------------------------------ AnalysisMode
AUDIO == "AUDIO"
IMAGE == "IMAGE"
AnalysisMode == {AUDIO, IMAGE}

\* --------------------------------------------------------- files (inputs)
AudioPrefix == <<"a","u","d","i","o","/">>
ImagePrefix == <<"i","m","a","g","e","/">>

\* the File objects a user may pick or drop: name and declared media type
Files ==
  { [name |-> "voice.wav",  type |-> AudioPrefix \o <<"w","a","v">>],
    [name |-> "song.mp3",   type |-> AudioPrefix \o <<"m","p","e","g">>],
    [name |-> "face.png",   type |-> ImagePrefix \o <<"p","n","g">>],
    [name |-> "clip.mp4",   type |-> <<"v","i","d","e","o","/","m","p","4">>],
    [name |-> "audio.bin",  type |-> <<"a","u","d","i","o">>],
    [name |-> "notes",      type |-> <<>>] }

\* ------------------------------------------------------------ error texts
InvalidAudioMsg == "Invalid file type. Please upload an audio file."
InvalidImageMsg == "Invalid file type. Please upload an image file."
ReadFailedMsg   == "Failed to read file."
ApiKeyMissingMsg == "API Key is missing"
NoResponseFromAIMsg == "No response from AI"
NoResponseMsg == "No response"
InvalidJsonMsg == "Analysis failed to produce valid JSON."
SyntaxErrorMsg == "Unexpected token in JSON"
FallbackMsg == "An unexpected error occurred during analysis."

\* ------------------------------------------------------ JSON.parse (text)
\* Response texts are token sequences.  StringToks are string literals,
\* ValueToks the literals that may stand where a value is expected (arrays
\* and numbers are single tokens).
StringToks == {"\"audio_artifacts\"", "\"risk_score\"", "\"verdict\"", "\"SYNTHETIC AI\""}
ValueToks  == StringToks \cup {"85", "[]"}

ParseFail == [ok |-> FALSE, pairs |-> <<>>]

\* members ::= string ":" value ( "," members )?  followed by "}" at the end
RECURSIVE ParseMembers(_, _)
ParseMembers(t, i) ==
  IF i + 3 > Len(t) THEN ParseFail
  ELSE IF t[i] \notin StringToks \/ t[i+1] # ":" \/ t[i+2] \notin ValueToks THEN ParseFail
  ELSE IF i + 3 = Len(t)
       THEN IF t[i+3] = "}" THEN [ok |-> TRUE, pairs |-> << <<t[i], t[i+2]>> >>] ELSE ParseFail
  ELSE IF t[i+3] # "," THEN ParseFail
  ELSE LET r == ParseMembers(t, i + 4)
       IN  IF r.ok THEN [ok |-> TRUE, pairs |-> << <<t[i], t[i+2]>> >> \o r.pairs]
           ELSE ParseFail

\* the object built from the parsed members: for a repeated key the last wins
ObjectOf(pairs) ==
  [kind |-> "object",
   members |-> [k \in {pairs[j][1] : j \in DOMAIN pairs} |->
                  pairs[CHOOSE j \in DOMAIN pairs :
                          /\ pairs[j][1] = k
                          /\ \A h \in DOMAIN pairs : pairs[h][1] = k => h <= j][2]]]

\* JSON.parse: [ok |-> TRUE, value |-> v] or [ok |-> FALSE] (SyntaxError thrown)
JSONParse(t) ==
  IF Len(t) = 0 THEN [ok |-> FALSE, value |-> Null]
  ELSE IF Len(t) = 1
       THEN IF t[1] \in ValueToks
            THEN [ok |-> TRUE, value |-> [kind |-> "scalar", tok |-> t[1]]]
            ELSE [ok |-> FALSE, value |-> Null]
  ELSE IF t[1] # "{" THEN [ok |-> FALSE, value |-> Null]
  ELSE IF Len(t) = 2
       THEN IF t[2] = "}"
            THEN [ok |-> TRUE, value |-> ObjectOf(<<>>)]
            ELSE [ok |-> FALSE, value |-> Null]
  ELSE LET r == ParseMembers(t, 2)
       IN  IF r.ok THEN [ok |-> TRUE, value |-> ObjectOf(r.pairs)]
           ELSE [ok |-> FALSE, value |-> Null]

\* ------------------------------------------------- upstream model (inputs)
AudioJson   == <<"{", "\"audio_artifacts\"", ":", "[]", ",", "\"verdict\"", ":", "\"SYNTHETIC AI\"", "}">>
VisualJson  == <<"{", "\"risk_score\"", ":", "85", "}">>
EmptyObject == <<"{", "}">>
Truncated   == <<"{", "\"risk_score\"", ":", "85">>
TrailingComma == <<"{", "\"risk_score\"", ":", "85", ",", "}">>
Prose       == <<"Sorry", "I", "cannot">>

\* what generateContent / live.connect may do: reject (with or without a
\* message), or resolve with a response whose text is absent, empty or present
Responses ==
  { [kind |-> "error", message |-> "503 upstream unavailable", hasText |-> FALSE, text |-> <<>>],
    [kind |-> "error", message |-> "", hasText |-> FALSE, text |-> <<>>],
    [kind |-> "ok", message |-> "", hasText |-> FALSE, text |-> <<>>],
    [kind |-> "ok", message |-> "", hasText |-> TRUE, text |-> <<>>] }
  \cup
  { [kind |-> "ok", message |-> "", hasText |-> TRUE, text |-> t] :
      t \in {AudioJson, VisualJson, EmptyObject, Truncated, TrailingComma, Prose} }

\* the upstream call has not settled (or was never made)
NoResponse == [kind |-> "none", message |-> "", hasText |-> FALSE, text |-> <<>>]

\* how the upstream call settles for the analyses App starts
AppResponses ==
  { r \in Responses : \/ r.kind = "error"
                      \/ ~r.hasText
                      \/ r.text \in {AudioJson, VisualJson, Prose} }

\* ---------------------------------------------------------- geminiService
ANALYZE_AUDIO == "analyzeAudio"
ANALYZE_IMAGE == "analyzeImage"
TRANSCRIBE_AUDIO == "transcribeAudio"
CHECK_SCAM_RISK == "checkScamRisk"
CONNECT_LIVE == "connectLiveSession"
ServiceOps == {ANALYZE_AUDIO, ANALYZE_IMAGE, TRANSCRIBE_AUDIO, CHECK_SCAM_RISK, CONNECT_LIVE}

\* outcome of a service operation: a returned value or a thrown Error
Returned(v) == [ok |-> TRUE, value |-> v, message |-> ""]
Thrown(m)   == [ok |-> FALSE, value |-> Null, message |-> m]
NoOutcome   == [ok |-> FALSE, value |-> Null, message |-> "(pending)"]

\* process.env.API_KEY: undefined, "" or a key
ApiKeys == {Null, Str(""), Str("k-123")}

\* getClient() that only tests the key for undefined
GetClientOk_DefinedOnly(key) == key.kind = "string"

\* getClient(): TRUE when a client is built, FALSE when it throws
\* ("API Key is missing"); undefined and "" are both falsy
GetClientOk(key) == key.kind = "string" /\ key.text # ""

\* `!response.text`: undefined and "" are both falsy
TextMissing(resp) == ~resp.hasText \/ Len(resp.text) = 0

\* analyzeAudio / analyzeImage handing back a substitute when parsing fails
AnalyzeFinish_Substitute(resp) ==
  IF resp.kind = "error" THEN Thrown(resp.message)
  ELSE IF TextMissing(resp) THEN Thrown(NoResponseFromAIMsg)
  ELSE LET p == JSONParse(resp.text)
       IN  IF p.ok THEN Returned(p.value) ELSE Returned(ObjectOf(<<>>))

\* analyzeAudio / analyzeImage after the awaited generateContent settled
AnalyzeFinish(resp) ==
  IF resp.kind = "error" THEN Thrown(resp.message)
  ELSE IF TextMissing(resp) THEN Thrown(NoResponseFromAIMsg)
  ELSE LET p == JSONParse(resp.text)
       IN  IF p.ok THEN Returned(p.value) ELSE Thrown(InvalidJsonMsg)

\* checkScamRisk / transcribeAudio after the awaited generateContent settled
PlainFinish(resp) ==
  IF resp.kind = "error" THEN Thrown(resp.message)
  ELSE IF TextMissing(resp) THEN Thrown(NoResponseMsg)
  ELSE LET p == JSONParse(resp.text)
       IN  IF p.ok THEN Returned(p.value) ELSE Thrown(SyntaxErrorMsg)

\* the two revisions of the service client held by the repository
EARLIER == "earlier"
LATEST == "latest"
ServiceRevs == {EARLIER, LATEST}

\* what the earlier transcribeAudio returns from its catch block
TranscriptSubstitute(text) ==
  [kind |-> "substitute", transcript |-> text,
   detected_language |-> "unknown", summary |-> "Parsing failed"]

\* what the earlier checkScamRisk returns from its catch block
ScamSubstitute ==
  [kind |-> "substitute", risk_level |-> "LOW", risk_score |-> 0,
   warning_message |-> "Could not analyze"]

\* checkScamRisk / transcribeAudio of the earlier revision: JSON.parse sits
\* in a try block whose catch returns a value
PlainFinishEarlier(op, resp) ==
  IF resp.kind = "error" THEN Thrown(resp.message)
  ELSE IF TextMissing(resp) THEN Thrown(NoResponseFromAIMsg)
  ELSE LET p == JSONParse(resp.text)
       IN  IF p.ok THEN Returned(p.value)
           ELSE IF op = TRANSCRIBE_AUDIO THEN Returned(TranscriptSubstitute(resp.text))
           ELSE Returned(ScamSubstitute)

\* connectLiveSession: the promise of client.live.connect is handed back as is
ConnectFinish(resp) ==
  IF resp.kind = "error" THEN Thrown(resp.message)
  ELSE Returned([kind |-> "session"])

\* the part of a service operation that runs once the upstream call settled
ServiceFinish(op, resp) ==
  IF op \in {ANALYZE_AUDIO, ANALYZE_IMAGE} THEN AnalyzeFinish(resp)
  ELSE IF op \in {TRANSCRIBE_AUDIO, CHECK_SCAM_RISK} THEN PlainFinish(resp)
  ELSE ConnectFinish(resp)

\* the same for a given revision of the service client; the revisions differ
\* in checkScamRisk and transcribeAudio only
ServiceFinishAt(rev, op, resp) ==
  IF rev = EARLIER /\ op \in {TRANSCRIBE_AUDIO, CHECK_SCAM_RISK}
  THEN PlainFinishEarlier(op, resp)
  ELSE ServiceFinish(op, resp)

\* ------------------------------------------------------------------ state
VARIABLES
  apiKey,       \* process.env.API_KEY
  mode,         \* App: useState(AnalysisMode.AUDIO)
  fileData,     \* App: useState<FileData | null>(null)
  isAnalyzing,  \* App: useState(false)
  result,       \* App: useState<AnalysisResult | null>(null)
  error,        \* App: useState<string | null>(null)
  uploadError,  \* FileUpload: useState<string | null>(null)
  preScanning,  \* FileUpload: useState(false)
  tasks,        \* one entry per accepted file on its way: its FileReader,
                \* pre-scan timer or analysis request, oldest first, with
                \* the closures it captured
  lastOp,       \* the handler that ran last, its arguments and its outcome
  svcOp,        \* service client on its own: the operation invoked
  svcRev,       \* the revision of the service client that was invoked
  svcStage,     \* "idle", "awaiting" (request sent), "failed" or "returned"
  svcResp,      \* how the upstream call settled
  svcOutcome,   \* what the operation returned or threw
  svcSent,      \* requests sent to the upstream model
  svcCalls,     \* operations invoked
  riskScore,    \* ForensicCockpit: props.result.risk_score
  base64Image,  \* ForensicCockpit: props.base64Image
  view,         \* ForensicCockpit: what the last render put on screen
  report,       \* ForensicCockpit: the document of the last export
  overlay,      \* ForensicCockpit: the bounding box drawn over the image
  audioReport,  \* AnalysisDisplay: the document of the last audio export
  isConnected,  \* LiveMonitor: useState(false)
  liveSession,  \* LiveMonitor: how many sessions handleStart has begun
  ctxOpen,      \* LiveMonitor: audioContextRef.current and
                \* inputContextRef.current are contexts
  audioClock,   \* LiveMonitor: currentTime of that output context
  nextStartTime, \* LiveMonitor: nextStartTimeRef.current
  decodes,      \* LiveMonitor: onmessage calls waiting in decodeAudioData
  segments,     \* LiveMonitor: the sources started on the output context
  liveOp,       \* LiveMonitor: the handler that ran last
  userText,     \* LiveMonitor: currentTurn.user
  timers,       \* the timeouts set by debouncedScamCheck and not yet run, each
                \* with the session its chunk arrived in
  timeoutRef,   \* LiveMonitor: timeoutRef.current (0: null)
  timerSeq,     \* the id setTimeout returned last
  wallClock,    \* milliseconds since the page loaded
  lastChunkAt,  \* when the last input transcription chunk arrived
  lastChunkText, \* the user text accumulated at that chunk
  burst,        \* the chunks of the current burst and the calls it caused
  scamCalls,    \* checkScamRisk calls in flight, oldest first, each with
                \* the session its timeout was set in
  scamRisk,     \* LiveMonitor: useState<ScamRiskResult | null>(null)
  scamOp,       \* the debounce callback or completion that ran last
  isRecording,  \* Transcriber: useState(false)
  isProcessing, \* Transcriber: useState(false)
  transResult,  \* Transcriber: useState<TranscriptionResult | null>(null)
  recorders,    \* Transcriber: the recordings asked for, oldest first
  mediaRecorderRef, \* Transcriber: mediaRecorderRef.current (0: null)
  chunksRef,    \* Transcriber: chunksRef.current, each chunk by its recorder
  transCalls,   \* Transcriber: the transcribeAudio calls issued, oldest first
  modelText,    \* LiveMonitor: currentTurn.model
  transcript,   \* LiveMonitor: useState<{user, model}[]>([])
  capturedTurn, \* LiveMonitor: currentTurn as the callbacks of the running
                \* session see it, the value of the render handleStart ran in
  streamOpen,   \* LiveMonitor: streamRef.current is a stream with live tracks
  sourcesRef,   \* LiveMonitor: sourcesRef.current, each source by the context
                \* it was made on and its place among the segments started
                \* on it (0: made on a context that was closed or replaced;
                \* such sources never play and are alike)
  vizMounted,   \* AudioVisualizer: the component is mounted (canvasRef is set)
  vizHighlight, \* AudioVisualizer: highlightTime is not null
  vizPlaying,   \* AudioVisualizer: the audio element is playing
  vizAtArtifact, \* AudioVisualizer: currentTime is within a second of
                \* highlightTime
  vizContexts,  \* AudioVisualizer: audio contexts created by this instance
  vizCtxSet,    \* AudioVisualizer: audioContextRef.current is a context
  vizFrames,    \* AudioVisualizer: ids of the animation frames requested for
                \* draw and neither run nor cancelled
  animationRef, \* AudioVisualizer: animationRef.current
  rafSeq        \* the id requestAnimationFrame returned last

appVars == <<mode, fileData, isAnalyzing, result, error>>
uploadVars == <<uploadError, preScanning>>
svcVars == <<svcOp, svcRev, svcStage, svcResp, svcOutcome, svcSent, svcCalls>>
vars == <<apiKey, mode, fileData, isAnalyzing, result, error, uploadError,
          preScanning, tasks, lastOp, svcOp, svcRev, svcStage, svcResp, svcOutcome,
          svcSent, svcCalls, riskScore, base64Image, view, report,
          overlay, audioReport,
          isConnected, liveSession, ctxOpen, audioClock, nextStartTime,
          decodes, segments, liveOp, userText, timers, timeoutRef, timerSeq,
          wallClock, lastChunkAt, lastChunkText, burst, scamCalls, scamRisk,
          scamOp,
          isRecording, isProcessing, transResult, recorders, mediaRecorderRef,
          chunksRef, transCalls, modelText, transcript, capturedTurn,
          streamOpen, sourcesRef, vizMounted, vizHighlight, vizPlaying,
          vizAtArtifact, vizContexts, vizCtxSet, vizFrames, animationRef, rafSeq>>
vizVars == <<vizMounted, vizHighlight, vizPlaying, vizAtArtifact, vizContexts, vizCtxSet,
             vizFrames, animationRef, rafSeq>>
transVars == <<isRecording, isProcessing, transResult, recorders,
               mediaRecorderRef, chunksRef, transCalls>>
coreVars == <<apiKey, appVars, uploadVars, tasks, lastOp, svcVars, transVars, vizVars>>
cockpitVars == <<riskScore, base64Image, view, report, overlay, audioReport>>
\* the state of the components that App and the service client do not touch
audioVars == <<isConnected, liveSession, ctxOpen, audioClock, nextStartTime,
               decodes, segments, liveOp>>
debounceVars == <<userText, timers, timeoutRef, timerSeq, wallClock, lastChunkAt,
                  lastChunkText, burst, scamCalls, scamOp>>
scamVars == <<debounceVars, scamRisk>>
turnVars == <<modelText, transcript, capturedTurn>>
cleanupVars == <<streamOpen, sourcesRef>>
sideVars == <<turnVars, cleanupVars>>
extVars == <<cockpitVars, audioVars, scamVars, transVars, sideVars, vizVars>>
\* what the Transcriber leaves alone
notTranscriber == <<apiKey, appVars, uploadVars, tasks, lastOp, svcVars,
                    cockpitVars, audioVars, scamVars, sideVars, vizVars>>
\* what the AudioVisualizer leaves alone
notVisualizer == <<apiKey, appVars, uploadVars, tasks, lastOp, svcVars,
                   cockpitVars, audioVars, scamVars, sideVars, transVars>>
\* what the ForensicCockpit and what the audio path of LiveMonitor leave alone
notCockpit == <<coreVars, audioVars, scamVars, sideVars>>
notAudio == <<coreVars, cockpitVars, debounceVars>>

NoOp == [name |-> "none", arg |-> "", task |-> 0, outcome |-> NoOutcome]
Op(n, a, i) == [name |-> n, arg |-> a, task |-> i, outcome |-> NoOutcome]

\* FileData built by reader.onload for a File
FileDataOf(f) == [kind |-> "file", fileName |-> f.name, mimeType |-> f.type]

\* a FileUpload instance is mounted while App holds no file ({!fileData && ...})
UploadMounted == fileData = Null

\* the drop zone and the file input take input: not replaced by the
\* "Scanning Metadata" view and not under pointer-events-none
IntakeEnabled == UploadMounted /\ ~preScanning /\ ~isAnalyzing

\* App, FileUpload and the service client after construction
AppInit ==
  /\ mode = AUDIO
  /\ fileData = Null
  /\ isAnalyzing = FALSE
  /\ result = Null
  /\ error = Null
  /\ uploadError = Null
  /\ preScanning = FALSE
  /\ tasks = <<>>
  /\ lastOp = NoOp
  /\ svcOp = "none"
  /\ svcRev = LATEST
  /\ svcStage = "idle"
  /\ svcResp = NoResponse
  /\ svcOutcome = NoOutcome
  /\ svcSent = 0
  /\ svcCalls = 0

\* generatePieChartImage returned '' (no 2d context)
NoChart == [drawn |-> FALSE, color |-> "", label |-> <<>>]

\* no ForensicCockpit is mounted
NotRendered == [banner |-> "none", gauge |-> "none", label |-> "none"]
NoReport == [done |-> FALSE, saved |-> FALSE, threw |-> FALSE,
             exhibit |-> "none", chart |-> NoChart, rows |-> <<>>,
             props |-> <<>>]
\* a rectangle in the units of the image container; none
NoRect == [top |-> 0, left |-> 0, height |-> 0, width |-> 0]
\* nothing is drawn yet: showBoxes starts true, the props are a 16:9 image and
\* an artifact boxed over its top half
NoOverlay == [show |-> TRUE, native |-> <<1920, 1080>>, box |-> <<0, 0, 500, 1000>>,
              kind |-> "none", rect |-> NoRect, image |-> NoRect]
\* no audio report was exported
NoAudioReport == [done |-> FALSE]
CockpitIdle ==
  /\ riskScore = 0
  /\ base64Image = "absent"
  /\ view = NotRendered
  /\ report = NoReport
  /\ overlay = NoOverlay
  /\ audioReport = NoAudioReport

\* LiveMonitor after construction: no session, no output context
AudioIdle ==
  /\ isConnected = FALSE
  /\ liveSession = 0
  /\ ctxOpen = FALSE
  /\ audioClock = 0
  /\ nextStartTime = 0
  /\ decodes = <<>>
  /\ segments = <<>>
  /\ liveOp = "none"
  /\ modelText = <<>>
  /\ transcript = <<>>
  /\ capturedTurn = [user |-> <<>>, model |-> <<>>]
  /\ streamOpen = FALSE
  /\ sourcesRef = {}

\* no debounce callback or scam check has run
NoScamOp == [name |-> "none", text |-> <<>>, at |-> 0, called |-> FALSE,
             outcome |-> NoOutcome, session |-> 0]

\* LiveMonitor after construction: empty turn, no timer, no risk held
ScamIdle ==
  /\ userText = <<>>
  /\ timers = {}
  /\ timeoutRef = 0
  /\ timerSeq = 0
  /\ wallClock = 0
  /\ lastChunkAt = 0
  /\ lastChunkText = <<>>
  /\ burst = [chunks |-> 0, calls |-> 0]
  /\ scamCalls = <<>>
  /\ scamRisk = Null
  /\ scamOp = NoScamOp

\* an AudioVisualizer without a highlight is mounted and was never played
VisualizerFresh ==
  /\ vizMounted = TRUE
  /\ vizPlaying = FALSE
  /\ vizAtArtifact = FALSE
  /\ vizContexts = 0
  /\ vizCtxSet = FALSE
  /\ vizFrames = {}
  /\ animationRef = 0
  /\ rafSeq = 0
VisualizerIdle ==
  /\ VisualizerFresh
  /\ vizHighlight = FALSE

\* the Transcriber is mounted and nothing was recorded
TranscriberIdle ==
  /\ isRecording = FALSE
  /\ isProcessing = FALSE
  /\ transResult = Null
  /\ recorders = <<>>
  /\ mediaRecorderRef = 0
  /\ chunksRef = <<>>
  /\ transCalls = <<>>

Init ==
  /\ apiKey \in ApiKeys
  /\ AppInit
  /\ CockpitIdle
  /\ AudioIdle
  /\ ScamIdle
  /\ TranscriberIdle
  /\ VisualizerIdle

\* the sequence without its i-th entry
RemoveAt(ts, i) == SubSeq(ts, 1, i - 1) \o SubSeq(ts, i + 1, Len(ts))

\* ------------------------------------------------------------- FileUpload
\* the validation of processFile: the declared type against the mode prop
\* the audio test without the slash of the prefix
IsAudio_NoSlash(f) == StartsWith(f.type, <<"a","u","d","i","o">>)

IsAudio(f) == StartsWith(f.type, AudioPrefix)
IsImage(f) == StartsWith(f.type, ImagePrefix)

\* Null when the file passes, the validation message otherwise
ValidationError(m, f) ==
  IF m = AUDIO /\ ~IsAudio(f) THEN Str(InvalidAudioMsg)
  ELSE IF m = IMAGE /\ ~IsImage(f) THEN Str(InvalidImageMsg)
  ELSE Null

\* a FileReader started by processFile; pickMode is the mode of the render
\* whose processFile / triggerPreScan / onFileSelect closures it holds;
\* live says whether the FileUpload instance that made it is still mounted
NewTask(f) ==
  [file |-> f, pickMode |-> mode, stage |-> "reading", live |-> TRUE,
   switched |-> FALSE, op |-> "none"]

\* processFile(file), from handleChange or handleDrop
processFile(f) ==
  /\ IntakeEnabled
  /\ lastOp' = Op("processFile", f.name, 0)
  /\ IF ValidationError(mode, f) # Null
     THEN /\ uploadError' = ValidationError(mode, f)
          /\ UNCHANGED tasks
     ELSE /\ Len(tasks) < MaxPending
          /\ uploadError' = Null
          /\ tasks' = Append(tasks, NewTask(f))
  /\ UNCHANGED <<extVars, apiKey, appVars, preScanning, svcVars>>

\* reader.onload: triggerPreScan(data) -> setPreScanning(true), setTimeout
ReaderLoad(i) ==
  /\ i \in DOMAIN tasks
  /\ tasks[i].stage = "reading"
  /\ tasks' = [tasks EXCEPT ![i].stage = "prescan"]
  /\ preScanning' = IF tasks[i].live THEN TRUE ELSE preScanning
  /\ lastOp' = Op("readerLoad", tasks[i].file.name, i)
  /\ UNCHANGED <<extVars, apiKey, appVars, uploadError, svcVars>>

\* reader.onerror: setError("Failed to read file.")
ReaderError(i) ==
  /\ i \in DOMAIN tasks
  /\ tasks[i].stage = "reading"
  /\ tasks' = RemoveAt(tasks, i)
  /\ uploadError' = IF tasks[i].live THEN Str(ReadFailedMsg) ELSE uploadError
  /\ lastOp' = Op("readerError", tasks[i].file.name, i)
  /\ UNCHANGED <<extVars, apiKey, appVars, preScanning, svcVars>>

\* -------------------------------------------------------------------- App
\* the operation handleFileSelect picks, by the mode its closure holds (the
\* App source names the second mode SPECTROGRAM and its operation
\* analyzeSpectrogram; types.ts and the service name them IMAGE, analyzeImage)
OperationFor(m) == IF m = AUDIO THEN ANALYZE_AUDIO ELSE ANALYZE_IMAGE

\* catch (err): err.message || "An unexpected error occurred during analysis."
CatchMessage(m) == IF m # "" THEN m ELSE FallbackMsg

\* every FileReader and timer of the FileUpload instance being unmounted
\* outlives it, but its state setters no longer reach a mounted instance
Orphaned(ts) == [j \in DOMAIN ts |-> [ts[j] EXCEPT !.live = FALSE]]

\* the pre-scan timer fires: setPreScanning(false); onFileSelect(data), that
\* is handleFileSelect of the render the file was picked in, up to its await;
\* when getClient throws, the catch and finally blocks run in the same task
PreScanTimer(i) ==
  /\ i \in DOMAIN tasks
  /\ tasks[i].stage = "prescan"
  /\ fileData' = FileDataOf(tasks[i].file)
  /\ uploadError' = Null
  /\ preScanning' = FALSE
  /\ result' = Null
  /\ IF GetClientOk(apiKey)
     THEN /\ isAnalyzing' = TRUE
          /\ error' = Null
          /\ tasks' = Orphaned([tasks EXCEPT ![i].stage = "inflight",
                                             ![i].op = OperationFor(tasks[i].pickMode)])
          /\ lastOp' = Op("handleFileSelect", OperationFor(tasks[i].pickMode), i)
     ELSE /\ isAnalyzing' = FALSE
          /\ error' = Str(CatchMessage(ApiKeyMissingMsg))
          /\ tasks' = Orphaned(RemoveAt(tasks, i))
          /\ lastOp' = [Op("handleFileSelect", OperationFor(tasks[i].pickMode), i)
                          EXCEPT !.outcome = Thrown(ApiKeyMissingMsg)]
  /\ UNCHANGED <<extVars, apiKey, mode, svcVars>>

\* generateContent settles: the rest of analyzeAudio / analyzeImage, then the
\* rest of handleFileSelect (setResult or setError, then setIsAnalyzing(false))
UpstreamResponse(i, resp) ==
  /\ i \in DOMAIN tasks
  /\ tasks[i].stage = "inflight"
  /\ LET out == ServiceFinish(tasks[i].op, resp)
     IN  /\ lastOp' = [Op("resolve", tasks[i].op, i) EXCEPT !.outcome = out]
         /\ IF out.ok
            THEN /\ result' = out.value
                 /\ UNCHANGED error
            ELSE /\ error' = Str(CatchMessage(out.message))
                 /\ UNCHANGED result
  /\ tasks' = RemoveAt(tasks, i)
  /\ isAnalyzing' = FALSE
  /\ UNCHANGED <<extVars, apiKey, mode, fileData, uploadVars, svcVars>>

\* resetAnalysis that leaves the error in place
resetAnalysis_KeepsError ==
  /\ fileData' = Null
  /\ result' = Null
  /\ UNCHANGED error

\* resetAnalysis(): setFileData(null); setResult(null); setError(null)
resetAnalysis ==
  /\ fileData' = Null
  /\ result' = Null
  /\ error' = Null

\* the Remove, Try Again and Analyze New File buttons
ResetClick ==
  /\ fileData # Null
  /\ ~isAnalyzing \/ error # Null \/ result # Null
  /\ resetAnalysis
  /\ lastOp' = Op("resetAnalysis", "", 0)
  /\ UNCHANGED <<extVars, apiKey, mode, isAnalyzing, uploadVars, tasks, svcVars>>

\* handleModeChange that does nothing when the active mode is chosen again
handleModeChange_SkipSame(newMode) ==
  /\ mode' = newMode
  /\ IF newMode = mode
     THEN UNCHANGED <<fileData, result, error>>
     ELSE resetAnalysis
  /\ tasks' = [j \in DOMAIN tasks |->
                 IF tasks[j].stage = "inflight" /\ newMode # mode
                 THEN [tasks[j] EXCEPT !.switched = TRUE]
                 ELSE tasks[j]]
  /\ lastOp' = Op("handleModeChange", newMode, 0)
  /\ UNCHANGED <<extVars, apiKey, isAnalyzing, uploadVars, svcVars>>

\* handleModeChange(newMode), from the two nav buttons
handleModeChange(newMode) ==
  /\ mode' = newMode
  /\ resetAnalysis
  /\ tasks' = [j \in DOMAIN tasks |->
                 IF tasks[j].stage = "inflight" /\ newMode # mode
                 THEN [tasks[j] EXCEPT !.switched = TRUE]
                 ELSE tasks[j]]
  /\ lastOp' = Op("handleModeChange", newMode, 0)
  /\ UNCHANGED <<extVars, apiKey, isAnalyzing, uploadVars, svcVars>>

Next ==
  \/ \E f \in Files : processFile(f)
  \/ \E i \in 1..MaxPending : ReaderLoad(i)
  \/ \E i \in 1..MaxPending : ReaderError(i)
  \/ \E i \in 1..MaxPending : PreScanTimer(i)
  \/ \E i \in 1..MaxPending, resp \in AppResponses : UpstreamResponse(i, resp)
  \/ ResetClick
  \/ \E m \in AnalysisMode : handleModeChange(m)

Spec == Init /\ [][Next]_vars

\* ------------------------------------------- the service client on its own
\* a caller invokes an operation: getClient(), then the request goes out
SvcCall(op, rev) ==
  /\ svcStage # "awaiting"
  /\ svcCalls < MaxSvcCalls
  /\ svcOp' = op
  /\ svcRev' = rev
  /\ svcCalls' = svcCalls + 1
  /\ svcResp' = NoResponse
  /\ IF GetClientOk(apiKey)
     THEN /\ svcStage' = "awaiting"
          /\ svcSent' = svcSent + 1
          /\ svcOutcome' = NoOutcome
     ELSE /\ svcStage' = "failed"
          /\ svcSent' = svcSent
          /\ svcOutcome' = Thrown(ApiKeyMissingMsg)
  /\ UNCHANGED <<extVars, apiKey, appVars, uploadVars, tasks, lastOp>>

\* the upstream call settles and the operation returns or throws
SvcRespond(resp) ==
  /\ svcStage = "awaiting"
  /\ svcResp' = resp
  /\ svcOutcome' = ServiceFinishAt(svcRev, svcOp, resp)
  /\ svcStage' = IF ServiceFinishAt(svcRev, svcOp, resp).ok THEN "returned" ELSE "failed"
  /\ UNCHANGED <<extVars, apiKey, appVars, uploadVars, tasks, lastOp, svcOp, svcRev, svcSent, svcCalls>>

SvcNext ==
  \/ \E op \in ServiceOps, rev \in ServiceRevs : SvcCall(op, rev)
  \/ \E resp \in Responses : SvcRespond(resp)

SvcSpec == Init /\ [][SvcNext]_vars


\* --------------------------------------------------------- AnalysisDisplay
\* reading a property of a parsed value: only an object has own members
HasField(v, key) == v.kind = "object" /\ key \in DOMAIN v.members

\* type guards: (r).audio_artifacts !== undefined, (r).risk_score !== undefined
isAudioResult(r) == HasField(r, "\"audio_artifacts\"")
isVisualResult(r) == HasField(r, "\"risk_score\"")


\* render logic: the ForensicCockpit branch and the audio-view branch; when
\* neither is taken the component returns null
CockpitSelected(r, m, hasUrl) == m # AUDIO /\ isVisualResult(r) /\ hasUrl
AudioSelected(r, m) == m = AUDIO /\ isAudioResult(r)

\* the layouts the component returns for its props
Layouts(r, m, hasUrl) ==
  IF CockpitSelected(r, m, hasUrl) THEN {"cockpit"}
  ELSE IF AudioSelected(r, m) THEN {"audio"}
  ELSE {}

\* App renders AnalysisDisplay: {result && !isAnalyzing && ...} inside
\* {fileData && ...}; the preview URL of a held file is a non-empty string
Displayed == fileData # Null /\ result # Null /\ ~isAnalyzing


\* --------------------------------------------------------- ForensicCockpit
\* risk_score as the schema declares it: an integer from 0 to MaxRiskScore
MaxRiskScore == 100
RiskScores == 0..MaxRiskScore

\* props.base64Image: undefined, a payload jsPDF decodes, or one it rejects
ImagePayloads == {"absent", "decodable", "undecodable"}

\* the suspicious test with its lower limit included
isSuspicious_From20(s) == s >= 20 /\ s <= 70

isFake(s) == s > 70
isSuspicious(s) == s > 20 /\ s <= 70

gaugeColor(s) == IF isFake(s) THEN "#ef4444" ELSE IF isSuspicious(s) THEN "#eab308" ELSE "#10b981"

\* class of the verdict bar and text of the label under the gauge
bannerClass(s) ==
  IF isFake(s) THEN "border-red-500"
  ELSE IF isSuspicious(s) THEN "border-yellow-500" ELSE "border-emerald-500"
likelihoodLabel(s) ==
  IF isFake(s) THEN "High Probability"
  ELSE IF isSuspicious(s) THEN "Suspicious" ELSE "Authentic"

\* the image container: w-full aspect-video, in units that keep the
\* percentages whole
ContainerWidth == 16000
ContainerHeight == 9000

\* object-contain: the image keeps its ratio, fills one dimension of the
\* container and is centred in the other
ObjectContain(native) ==
  LET w == native[1]
      h == native[2]
  IN  IF w * ContainerHeight >= h * ContainerWidth
      THEN LET rh == (ContainerWidth * h) \div w
           IN  [top |-> (ContainerHeight - rh) \div 2, left |-> 0,
                height |-> rh, width |-> ContainerWidth]
      ELSE LET rw == (ContainerHeight * w) \div h
           IN  [top |-> 0, left |-> (ContainerWidth - rw) \div 2,
                height |-> ContainerHeight, width |-> rw]

\* style of an absolutely positioned box: percentages of the container
BoxStyle(box) ==
  [top    |-> (box[1] * ContainerHeight) \div 1000,
   left   |-> (box[2] * ContainerWidth) \div 1000,
   height |-> ((box[3] - box[1]) * ContainerHeight) \div 1000,
   width  |-> ((box[4] - box[2]) * ContainerWidth) \div 1000]

\* top-[20%] left-[35%] w-[30%] h-[40%]
FallbackBox == [top |-> (20 * ContainerHeight) \div 100, left |-> (35 * ContainerWidth) \div 100,
                height |-> (40 * ContainerHeight) \div 100, width |-> (30 * ContainerWidth) \div 100]

\* what the visualizer shows over the image for one artifact
DrawOverlay(o, show) ==
  LET kind == IF ~show THEN "none"
              ELSE IF o.box # <<>> THEN "box_2d"
              ELSE IF isFake(riskScore) THEN "fallback" ELSE "none"
  IN  [o EXCEPT !.show = show, !.kind = kind,
                !.image = ObjectContain(o.native),
                !.rect = IF kind = "box_2d" THEN BoxStyle(o.box)
                         ELSE IF kind = "fallback" THEN FallbackBox ELSE NoRect]

\* the component renders its props
RenderCockpit ==
  /\ view = NotRendered
  /\ audioReport = NoAudioReport
  /\ view' = [banner |-> bannerClass(riskScore), gauge |-> gaugeColor(riskScore),
              label |-> likelihoodLabel(riskScore)]
  /\ overlay' = DrawOverlay(overlay, overlay.show)
  /\ UNCHANGED <<notCockpit, riskScore, base64Image, report, audioReport>>

\* the "bounding boxes" checkbox
ToggleBoxes ==
  /\ view # NotRendered
  /\ overlay' = DrawOverlay(overlay, ~overlay.show)
  /\ UNCHANGED <<notCockpit, riskScore, base64Image, view, report, audioReport>>

\* `${n}` for a non-negative integer: its decimal digits, no leading zero
Digit == <<"0","1","2","3","4","5","6","7","8","9">>
RECURSIVE NumberToString(_)
NumberToString(n) ==
  IF n < 10 THEN <<Digit[n + 1]>>
  ELSE NumberToString(n \div 10) \o <<Digit[(n % 10) + 1]>>

\* the slice colour that only tells synthetic from the rest
sliceColor_TwoBands(s) == IF isFake(s) THEN "#ef4444" ELSE "#10b981"

\* ctx.fillStyle of the score slice
sliceColor(s) == IF isFake(s) THEN "#ef4444" ELSE IF isSuspicious(s) THEN "#eab308" ELSE "#10b981"

\* generatePieChartImage: '' without a 2d context, else the drawn chart
generatePieChartImage(s, ctxOk) ==
  IF ~ctxOk THEN NoChart
  ELSE [drawn |-> TRUE, color |-> sliceColor(s),
        label |-> NumberToString(s) \o <<"%">>]

\* the evidence photo without the try block around doc.addImage
EvidenceExhibit_NoCatch(payload) ==
  IF payload = "absent" THEN [threw |-> FALSE, exhibit |-> "none"]
  ELSE IF payload = "decodable" THEN [threw |-> FALSE, exhibit |-> "image"]
  ELSE [threw |-> TRUE, exhibit |-> "none"]

\* the evidence photo of the report: doc.addImage in a try block whose catch
\* draws the fallback rectangle
EvidenceExhibit(payload) ==
  IF payload = "absent" THEN [threw |-> FALSE, exhibit |-> "none"]
  ELSE IF payload = "decodable" THEN [threw |-> FALSE, exhibit |-> "image"]
  ELSE [threw |-> FALSE, exhibit |-> "placeholder"]

\* ---- the artifact table of the two reports
\* doc.internal.pageSize.getHeight() of the default document (A4, in mm)
PageHeight == 297
\* the bottom threshold of the page-break test of each report
ImageThreshold == 40
AudioThreshold == 30

\* the reports' inputs: how many lines splitTextToSize makes of the
\* explanation and of each artifact's description
MaxArtifacts == 3
SummaryLengths == {2, 30}
DescLengths == {1, 20}
ArtifactLists == UNION {[1..n -> DescLengths] : n \in 0..MaxArtifacts}

\* the page-break test that only looks at the bottom edge of the page
PageBreakNeeded_AtEdge(y, threshold) == y > PageHeight

\* if (yPos > pageHeight - threshold) { doc.addPage(); yPos = 20; }
PageBreakNeeded(y, threshold) == y > PageHeight - threshold

\* the forEach over the artifacts: where each row starts, and whether a page
\* was added before it; a row takes 5 + 5 per description line + 8
RECURSIVE LayoutRows(_, _, _, _)
LayoutRows(y, page, arts, threshold) ==
  IF Len(arts) = 0 THEN <<>>
  ELSE LET brk == PageBreakNeeded(y, threshold)
           y0 == IF brk THEN 20 ELSE y
           p0 == IF brk THEN page + 1 ELSE page
       IN  <<[page |-> p0, y |-> y0, broke |-> brk, before |-> y]>>
             \o LayoutRows(y0 + 5 + (Head(arts) * 5) + 8, p0, Tail(arts), threshold)

\* yPos and page of handleGenerateReport when its artifact loop begins
ImageTableStart(hasImage, summaryLines) ==
  LET afterInfo == 55 + 10 + 20 + (IF hasImage THEN 5 ELSE 0) + 85 + 30
      afterSummary == afterInfo + 8 + (summaryLines * 5) + 15
      brk == afterSummary > PageHeight - 60
      y == IF brk THEN 20 ELSE afterSummary
  IN  [y |-> y + 8 + 30 + 15 + 10, page |-> IF brk THEN 2 ELSE 1]

\* yPos and page of handleGenerateAudioReport when its artifact loop begins
AudioTableStart(summaryLines) ==
  [y |-> 55 + 10 + 20 + 8 + (summaryLines * 5) + 15 + 45 + 10, page |-> 1]

\* click on the report button of a rendered cockpit; the explanation and the
\* artifacts are those of the displayed result at every click
handleGenerateReport(ctxOk, summaryLines, arts) ==
  /\ view # NotRendered
  /\ report.done => report.props = <<summaryLines, arts>>
  /\ LET ev == EvidenceExhibit(base64Image)
         chartUrl == generatePieChartImage(riskScore, ctxOk)
         start == ImageTableStart(base64Image # "absent", summaryLines)
     IN  report' = IF ev.threw
                   THEN [done |-> TRUE, saved |-> FALSE, threw |-> TRUE,
                         exhibit |-> ev.exhibit, chart |-> NoChart, rows |-> <<>>,
                         props |-> <<summaryLines, arts>>]
                   ELSE [done |-> TRUE, saved |-> TRUE, threw |-> FALSE,
                         exhibit |-> ev.exhibit, chart |-> chartUrl,
                         props |-> <<summaryLines, arts>>,
                         rows |-> LayoutRows(start.y, start.page, arts, ImageThreshold)]
  /\ UNCHANGED <<notCockpit, riskScore, base64Image, view, overlay, audioReport>>

CockpitProps ==
  /\ apiKey = Str("k-123")
  /\ AppInit
  /\ riskScore \in RiskScores
  /\ base64Image \in ImagePayloads
  /\ view = NotRendered
  /\ report = NoReport
  /\ audioReport = NoAudioReport
  /\ AudioIdle
  /\ ScamIdle
  /\ TranscriberIdle
  /\ VisualizerIdle

CockpitInit ==
  /\ CockpitProps
  /\ overlay = NoOverlay

CockpitNext ==
  \/ RenderCockpit
  \/ ToggleBoxes
  \/ \E ctxOk \in BOOLEAN, n \in SummaryLengths, arts \in ArtifactLists :
       handleGenerateReport(ctxOk, n, arts)

CockpitSpec == CockpitInit /\ [][CockpitNext]_vars

\* ------------------------------------------- AnalysisDisplay: audio report
\* result.verdict and result.human_likelihood_score as the service may
\* return them
Verdicts == {"SYNTHETIC AI", "REAL HUMAN"}
ScoreStrings == { <<"9","8","%">>, <<"2","%">>, <<"1","0","0","%">>, <<"0","%">>,
                  <<>>, <<"h","i","g","h">>, <<"9","8",".","5","%">>,
                  <<"1","5","0","%">> }

IsDigit(c) == \E k \in 1..10 : Digit[k] = c
\* scoreString.replace(/[^0-9]/g, '')
DigitsOnly(str) == SelectSeq(str, IsDigit)

\* parseInt of a string of decimal digits
RECURSIVE ParseDigits(_)
ParseDigits(d) ==
  IF Len(d) = 0 THEN 0
  ELSE 10 * ParseDigits(SubSeq(d, 1, Len(d) - 1))
         + ((CHOOSE k \in 1..10 : Digit[k] = d[Len(d)]) - 1)

\* parseInt(...) || 0: NaN (no digit left) and 0 both give 0
humanScore(str) == IF Len(DigitsOnly(str)) = 0 THEN 0 ELSE ParseDigits(DigitsOnly(str))

\* let chartScore = isSynthetic ? (100 - humanScore) : humanScore
chartScore(str, isSynthetic) ==
  IF isSynthetic THEN 100 - humanScore(str) ELSE humanScore(str)

\* `${n}` for an integer
IntToString(n) == IF n < 0 THEN <<"-">> \o NumberToString(0 - n) ELSE NumberToString(n)

\* generateAudioPieChart: '' without a 2d context, else the drawn chart
generateAudioPieChart(str, isSynthetic, ctxOk) ==
  IF ~ctxOk THEN NoChart
  ELSE [drawn |-> TRUE,
        color |-> IF isSynthetic THEN "#ef4444" ELSE "#10b981",
        label |-> IntToString(chartScore(str, isSynthetic)) \o <<"%">>]

\* click on the report button of the audio view (shown instead of the
\* cockpit); verdict, score, explanation and artifacts are those of the
\* displayed result at every click
handleGenerateAudioReport(verdict, str, ctxOk, summaryLines, arts) ==
  /\ view = NotRendered
  /\ report = NoReport
  /\ audioReport.done => audioReport.props = <<verdict, str, summaryLines, arts>>
  /\ LET start == AudioTableStart(summaryLines)
     IN  audioReport' =
           [done |-> TRUE, saved |-> TRUE, verdict |-> verdict, score |-> str,
            props |-> <<verdict, str, summaryLines, arts>>,
            chart |-> generateAudioPieChart(str, verdict = "SYNTHETIC AI", ctxOk),
            rows |-> LayoutRows(start.y, start.page, arts, AudioThreshold)]
  /\ UNCHANGED <<notCockpit, riskScore, base64Image, view, report, overlay>>

\* the result display with a few risk scores, for either kind of result
ReportScores == {10, 50, 90}
ReportInit ==
  /\ CockpitInit
  /\ riskScore \in ReportScores

ReportNext ==
  \/ CockpitNext
  \/ \E v \in Verdicts, str \in ScoreStrings, ctxOk \in BOOLEAN,
        n \in SummaryLengths, arts \in ArtifactLists :
          handleGenerateAudioReport(v, str, ctxOk, n, arts)

ReportSpec == ReportInit /\ [][ReportNext]_vars

\* ------------------------------------------ ForensicCockpit: bounding boxes
\* native width and height of the evidence image: 16:9, 4:1, 1:2 and 1:1
NativeSizes == {<<1920, 1080>>, <<4000, 1000>>, <<1000, 2000>>, <<1000, 1000>>}
\* art.box_2d as [ymin, xmin, ymax, xmax] on 0..1000; <<>> when absent
Boxes == {<<0, 0, 500, 1000>>, <<0, 0, 250, 1000>>, <<200, 100, 600, 500>>, <<>>}

OverlayInit ==
  /\ CockpitProps
  /\ riskScore \in ReportScores
  /\ \E n \in NativeSizes, b \in Boxes :
       overlay = [NoOverlay EXCEPT !.native = n, !.box = b]

OverlaySpec == OverlayInit /\ [][CockpitNext]_vars


\* ------------------------------------------------ LiveMonitor: audio output
\* Times are in units of the audio clock.
MaxSessions == 2
MaxSegments == 2
MaxClock == 2
SegmentDurations == {1, 2}

\* the clamp that takes the clock whatever the cursor is
ClampCursor_TakeClock(cursor, now) == now

\* Math.max(nextStartTimeRef.current, ctx.currentTime)
ClampCursor(cursor, now) == IF cursor >= now THEN cursor ELSE now

\* source.start(when) on a running context: a time already past starts the
\* source at once; the buffer plays for its whole duration
Playback(when, now, dur) ==
  LET begin == IF when >= now THEN when ELSE now
  IN  [when |-> when, begin |-> begin, end |-> begin + dur]

\* click on Start Monitoring: the held scam risk is dropped, fresh contexts
\* are made, the cursor is put at the clock of the new output context
handleStart ==
  /\ ~isConnected
  /\ liveSession < MaxSessions
  /\ isConnected' = TRUE
  /\ liveSession' = liveSession + 1
  /\ ctxOpen' = TRUE
  /\ audioClock' = 0
  /\ nextStartTime' = 0
  /\ segments' = <<>>
  /\ scamRisk' = Null
  /\ liveOp' = "handleStart"
  /\ transcript' = <<>>
  /\ capturedTurn' = [user |-> userText, model |-> modelText]
  /\ streamOpen' = TRUE
  /\ UNCHANGED <<notAudio, decodes, modelText, sourcesRef>>

\* onmessage with an audio part of duration d, up to the await
AudioMessage(d) ==
  /\ liveSession > 0
  /\ Len(segments) + Len(decodes) < MaxSegments
  /\ liveOp' = "onmessage"
  /\ IF ~ctxOpen
     THEN UNCHANGED <<nextStartTime, decodes>>
     ELSE /\ nextStartTime' = ClampCursor(nextStartTime, audioClock)
          /\ decodes' = Append(decodes, [dur |-> d, ctx |-> liveSession])
  /\ UNCHANGED <<notAudio, scamRisk, sideVars, isConnected, liveSession, ctxOpen,
                 audioClock, segments>>

\* decodeAudioData settled for the i-th waiting call: the source is started
\* at the cursor on the context the call captured, the cursor advances
Decoded(i) ==
  /\ i \in DOMAIN decodes
  /\ liveOp' = "decoded"
  /\ segments' = IF decodes[i].ctx = liveSession /\ ctxOpen
                 THEN Append(segments, Playback(nextStartTime, audioClock, decodes[i].dur))
                 ELSE segments
  /\ nextStartTime' = nextStartTime + decodes[i].dur
  /\ decodes' = RemoveAt(decodes, i)
  /\ sourcesRef' = sourcesRef \cup
                     {[ctx |-> decodes[i].ctx,
                       seg |-> IF decodes[i].ctx = liveSession /\ ctxOpen
                               THEN Len(segments) + 1 ELSE 0]}
  /\ UNCHANGED <<notAudio, scamRisk, turnVars, streamOpen, isConnected, liveSession,
                 ctxOpen, audioClock>>

\* the output context renders: its clock advances
AudioTick ==
  /\ ctxOpen
  /\ audioClock < MaxClock
  /\ audioClock' = audioClock + 1
  /\ liveOp' = "tick"
  /\ UNCHANGED <<notAudio, scamRisk, sideVars, isConnected, liveSession, ctxOpen,
                 nextStartTime, decodes, segments>>

\* click on Stop Monitoring: cleanupAudio closes the contexts and stops the
\* sources; the session itself is left open
handleStop ==
  /\ isConnected
  /\ isConnected' = FALSE
  /\ ctxOpen' = FALSE
  /\ segments' = <<>>
  /\ streamOpen' = FALSE
  /\ sourcesRef' = {}
  /\ liveOp' = "handleStop"
  /\ UNCHANGED <<notAudio, scamRisk, turnVars, liveSession, audioClock, nextStartTime,
                 decodes>>

\* onclose / onerror of the session
SessionClosed ==
  /\ isConnected
  /\ isConnected' = FALSE
  /\ liveOp' = "onclose"
  /\ UNCHANGED <<notAudio, scamRisk, sideVars, liveSession, ctxOpen, audioClock,
                 nextStartTime, decodes, segments>>

AudioNext ==
  \/ handleStart
  \/ \E d \in SegmentDurations : AudioMessage(d)
  \/ \E i \in 1..MaxSegments : Decoded(i)
  \/ AudioTick
  \/ handleStop
  \/ SessionClosed

\* the LiveMonitor page on its own, a key being configured
LiveInit ==
  /\ apiKey = Str("k-123")
  /\ AppInit
  /\ CockpitIdle
  /\ AudioIdle
  /\ ScamIdle
  /\ TranscriberIdle
  /\ VisualizerIdle

AudioSpec == LiveInit /\ [][AudioNext]_vars


\* ----------------------------------------- LiveMonitor: debounced scam check
\* Times are in milliseconds.
QuietPeriod == 1500
ScamMinLength == 10
TickMs == QuietPeriod \div 3
MaxWallClock == 3000
MaxChunks == 3

\* inputTranscription.text of a message: a short and a long piece
ChunkTexts == { <<"h","i"," ">>,
                <<"p","a","y"," ","m","e"," ","n","o","w"," ">> }

\* risk_level of a ScamRiskResult
RiskLevels == {"LOW", "MEDIUM", "HIGH", "CRITICAL"}

\* how a checkScamRisk(text) call may settle
ScamOutcomes(text) ==
  { Returned([kind |-> "risk", risk_level |-> l, forText |-> text]) : l \in RiskLevels }
  \cup {Thrown(NoResponseMsg)}

\* the timeouts whose delay has run out
DueTimers == {t \in timers : t.due <= wallClock}

\* debouncedScamCheck that leaves the pending timeout alone
CancelPending_Keep(ts, ref) == ts

\* if (timeoutRef.current) clearTimeout(timeoutRef.current)
CancelPending(ts, ref) == {t \in ts : t.id # ref}

\* onmessage with an inputTranscription chunk c: the text is appended to the
\* user side of the current turn and debouncedScamCheck(newVal.user) re-arms
\* the timeout
Chunk(c) ==
  /\ liveSession > 0
  /\ timerSeq < MaxChunks
  /\ DueTimers = {}
  /\ userText' = userText \o c
  /\ timerSeq' = timerSeq + 1
  /\ timeoutRef' = timerSeq + 1
  /\ timers' = CancelPending(timers, timeoutRef)
                 \cup {[id |-> timerSeq + 1, due |-> wallClock + QuietPeriod,
                        text |-> userText \o c, session |-> liveSession]}
  /\ burst' = IF burst.chunks = 0 \/ wallClock - lastChunkAt >= QuietPeriod
              THEN [chunks |-> 1, calls |-> 0]
              ELSE [burst EXCEPT !.chunks = @ + 1]
  /\ lastChunkAt' = wallClock
  /\ lastChunkText' = userText \o c
  /\ scamOp' = [name |-> "chunk", text |-> c, at |-> wallClock, called |-> FALSE,
                outcome |-> NoOutcome, session |-> liveSession]
  /\ UNCHANGED <<coreVars, cockpitVars, audioVars, sideVars, wallClock, scamCalls, scamRisk>>

\* the timeout callback, up to its await: texts of more than ScamMinLength
\* characters are sent to checkScamRisk
TimerFires(t) ==
  /\ t \in DueTimers
  /\ timers' = timers \ {t}
  /\ IF Len(t.text) > ScamMinLength
     THEN /\ scamCalls' = Append(scamCalls, [text |-> t.text, session |-> t.session])
          /\ burst' = [burst EXCEPT !.calls = @ + 1]
     ELSE UNCHANGED <<scamCalls, burst>>
  /\ scamOp' = [name |-> "timer", text |-> t.text, at |-> wallClock,
                called |-> Len(t.text) > ScamMinLength, outcome |-> NoOutcome,
                session |-> t.session]
  /\ UNCHANGED <<coreVars, cockpitVars, audioVars, sideVars, userText, timeoutRef, timerSeq,
                 wallClock, lastChunkAt, lastChunkText, scamRisk>>

\* time passes; a timeout that is due runs before the clock moves on
WallTick ==
  /\ liveSession > 0
  /\ wallClock < MaxWallClock
  /\ DueTimers = {}
  /\ wallClock' = wallClock + TickMs
  /\ UNCHANGED <<coreVars, cockpitVars, audioVars, sideVars, userText, timers, timeoutRef,
                 timerSeq, lastChunkAt, lastChunkText, burst, scamCalls, scamRisk, scamOp>>

\* the i-th checkScamRisk call in flight settles: the rest of the callback
ScamReturns(i, out) ==
  /\ i \in DOMAIN scamCalls
  /\ out \in ScamOutcomes(scamCalls[i].text)
  /\ scamCalls' = RemoveAt(scamCalls, i)
  /\ scamRisk' = IF out.ok /\ out.value.risk_level # "LOW" THEN out.value ELSE scamRisk
  /\ scamOp' = [name |-> "checked", text |-> scamCalls[i].text, at |-> wallClock,
                called |-> TRUE, outcome |-> out, session |-> scamCalls[i].session]
  /\ UNCHANGED <<coreVars, cockpitVars, audioVars, sideVars, userText, timers, timeoutRef,
                 timerSeq, wallClock, lastChunkAt, lastChunkText, burst>>

ScamNext ==
  \/ handleStart
  \/ handleStop
  \/ SessionClosed
  \/ \E c \in ChunkTexts : Chunk(c)
  \/ \E t \in timers : TimerFires(t)
  \/ WallTick
  \/ \E i \in 1..MaxChunks : \E l \in RiskLevels :
       ScamReturns(i, Returned([kind |-> "risk", risk_level |-> l, forText |-> scamCalls[i].text]))
  \/ \E i \in 1..MaxChunks : ScamReturns(i, Thrown(NoResponseMsg))

ScamSpec == LiveInit /\ [][ScamNext]_vars


\* ------------------------------------------------------------- Transcriber
\* A recording is the MediaRecorder of one startRecording call; its state is
\* "requested" (getUserMedia pending), "denied", "recording", "stopping"
\* (stop() called, events queued), "flushed" (dataavailable delivered) or
\* "done" (stop delivered). A chunk is named by the recorder that produced it.
MaxRecordings == 3

\* the record button is on screen
RecordButtonShown == transResult = Null /\ ~isProcessing

\* the recordings with the state of one replaced
SetRecorder(r, st) == [recorders EXCEPT ![r].state = st]

\* click on the record button while idle: startRecording up to its await
startRecording ==
  /\ RecordButtonShown
  /\ ~isRecording
  /\ Len(recorders) < MaxRecordings
  /\ recorders' = Append(recorders, [state |-> "requested"])
  /\ UNCHANGED <<notTranscriber, isRecording, isProcessing, transResult,
                 mediaRecorderRef, chunksRef, transCalls>>

\* getUserMedia resolves: the rest of startRecording
MediaGranted(r) ==
  /\ recorders[r].state = "requested"
  /\ recorders' = SetRecorder(r, "recording")
  /\ mediaRecorderRef' = r
  /\ chunksRef' = <<>>
  /\ isRecording' = TRUE
  /\ transResult' = Null
  /\ UNCHANGED <<notTranscriber, isProcessing, transCalls>>

\* getUserMedia rejects: the catch of startRecording
MediaDenied(r) ==
  /\ recorders[r].state = "requested"
  /\ recorders' = SetRecorder(r, "denied")
  /\ UNCHANGED <<notTranscriber, isRecording, isProcessing, transResult,
                 mediaRecorderRef, chunksRef, transCalls>>

\* click on the record button while recording
stopRecording ==
  /\ RecordButtonShown
  /\ isRecording
  /\ mediaRecorderRef # 0
  /\ recorders[mediaRecorderRef].state = "recording"
  /\ recorders' = SetRecorder(mediaRecorderRef, "stopping")
  /\ isRecording' = FALSE
  /\ UNCHANGED <<notTranscriber, isProcessing, transResult, mediaRecorderRef,
                 chunksRef, transCalls>>

\* the recorder's dataavailable event
ondataavailable(r, size) ==
  /\ recorders[r].state = "stopping"
  /\ recorders' = SetRecorder(r, "flushed")
  /\ chunksRef' = IF size > 0 THEN Append(chunksRef, r) ELSE chunksRef
  /\ UNCHANGED <<notTranscriber, isRecording, isProcessing, transResult,
                 mediaRecorderRef, transCalls>>

\* the recorder's stop event: the blob of chunksRef.current goes to
\* handleAnalyze, which begins the transcription
onstop(r) ==
  /\ recorders[r].state = "flushed"
  /\ recorders' = SetRecorder(r, "done")
  /\ transCalls' = Append(transCalls, [rec |-> r, chunks |-> chunksRef, settled |-> FALSE])
  /\ isProcessing' = TRUE
  /\ UNCHANGED <<notTranscriber, isRecording, transResult, mediaRecorderRef, chunksRef>>

\* transcribeAudio settles: the rest of handleAnalyze
TranscribeSettles(i, ok) ==
  /\ i \in 1..Len(transCalls)
  /\ ~transCalls[i].settled
  /\ transCalls' = [transCalls EXCEPT ![i].settled = TRUE]
  /\ transResult' = IF ok THEN Str("transcript") ELSE transResult
  /\ isProcessing' = FALSE
  /\ UNCHANGED <<notTranscriber, isRecording, recorders, mediaRecorderRef, chunksRef>>

\* the "New Recording" button of the result view
NewRecording ==
  /\ transResult # Null
  /\ transResult' = Null
  /\ UNCHANGED <<notTranscriber, isRecording, isProcessing, recorders,
                 mediaRecorderRef, chunksRef, transCalls>>

TranscriberNext ==
  \/ startRecording
  \/ \E r \in 1..Len(recorders) : MediaGranted(r)
  \/ \E r \in 1..Len(recorders) : MediaDenied(r)
  \/ stopRecording
  \/ \E r \in 1..Len(recorders), size \in {0, 1} : ondataavailable(r, size)
  \/ \E r \in 1..Len(recorders) : onstop(r)
  \/ \E i \in 1..Len(transCalls), ok \in BOOLEAN : TranscribeSettles(i, ok)
  \/ NewRecording

TranscriberSpec == LiveInit /\ [][TranscriberNext]_vars


\* -------------------------------------------------- LiveMonitor: transcript
MaxTurns == 2
MaxModelLen == 2
\* outputTranscription.text of a message
ModelTexts == { <<"o">>, <<"k">> }

\* onmessage with an outputTranscription chunk: appended to the model side
\* of the current turn
ModelChunk(c) ==
  /\ liveSession > 0
  /\ Len(modelText) < MaxModelLen
  /\ modelText' = modelText \o c
  /\ liveOp' = "outputTranscription"
  /\ UNCHANGED <<notAudio, scamRisk, cleanupVars, transcript, capturedTurn, isConnected,
                 liveSession, ctxOpen, audioClock, nextStartTime, decodes, segments>>

\* onmessage with turnComplete: the currentTurn of the callback's closure is
\* appended to the transcript and the current turn is emptied
TurnComplete ==
  /\ liveSession > 0
  /\ Len(transcript) < MaxTurns
  /\ transcript' = Append(transcript, capturedTurn)
  /\ userText' = <<>>
  /\ modelText' = <<>>
  /\ liveOp' = "turnComplete"
  /\ UNCHANGED <<coreVars, cockpitVars, cleanupVars, capturedTurn, scamRisk,
                 timers, timeoutRef, timerSeq, wallClock, lastChunkAt, lastChunkText,
                 burst, scamCalls, scamOp,
                 isConnected, liveSession, ctxOpen, audioClock, nextStartTime,
                 decodes, segments>>

TurnNext ==
  \/ handleStart
  \/ handleStop
  \/ SessionClosed
  \/ \E c \in ChunkTexts : Chunk(c)
  \/ \E c \in ModelTexts : ModelChunk(c)
  \/ TurnComplete

TurnSpec == LiveInit /\ [][TurnNext]_vars


\* ----------------------------------------------------- LiveMonitor: cleanup
\* source.onended of a source whose buffer has played out on the running
\* output context
SourceEnded(s) ==
  /\ s \in sourcesRef
  /\ ctxOpen
  /\ s.ctx = liveSession
  /\ s.seg \in DOMAIN segments
  /\ segments[s.seg].end <= audioClock
  /\ sourcesRef' = sourcesRef \ {s}
  /\ liveOp' = "onended"
  /\ UNCHANGED <<notAudio, scamRisk, turnVars, streamOpen, isConnected, liveSession,
                 ctxOpen, audioClock, nextStartTime, decodes, segments>>

\* click on Start Monitoring, after an earlier session, with getUserMedia
\* rejecting: the contexts were made and stored before the await, the catch
\* block only clears the connected flag
StartDenied ==
  /\ ~isConnected
  /\ liveSession > 0
  /\ liveSession < MaxSessions
  /\ isConnected' = FALSE
  /\ liveSession' = liveSession + 1
  /\ ctxOpen' = TRUE
  /\ audioClock' = 0
  /\ nextStartTime' = 0
  /\ segments' = <<>>
  /\ scamRisk' = Null
  /\ transcript' = <<>>
  /\ liveOp' = "startDenied"
  /\ UNCHANGED <<notAudio, decodes, modelText, capturedTurn, cleanupVars>>

CleanupNext ==
  \/ AudioNext
  \/ StartDenied
  \/ \E s \in sourcesRef : SourceEnded(s)

CleanupSpec == LiveInit /\ [][CleanupNext]_vars


\* --------------------------------------------------------- AudioVisualizer
MaxFrames == 7

\* handlePlay: initAudio() makes the context unless the ref holds one, then
\* draw() paints and requests the next frame
handlePlay ==
  /\ vizContexts' = IF vizCtxSet THEN vizContexts ELSE vizContexts + 1
  /\ vizCtxSet' = TRUE
  /\ rafSeq' = rafSeq + 1
  /\ vizFrames' = vizFrames \cup {rafSeq + 1}
  /\ animationRef' = rafSeq + 1

\* play pressed on the controls of the paused audio element: its play event
PlayPressed ==
  /\ vizMounted
  /\ ~vizPlaying
  /\ rafSeq < MaxFrames
  /\ vizPlaying' = TRUE
  /\ handlePlay
  /\ UNCHANGED <<notVisualizer, vizMounted, vizHighlight, vizAtArtifact>>

\* pause pressed on the controls, or the audio ends: no handler is attached
PausePressed ==
  /\ vizMounted
  /\ vizPlaying
  /\ vizPlaying' = FALSE
  /\ UNCHANGED <<notVisualizer, vizMounted, vizHighlight, vizAtArtifact, vizContexts,
                 vizCtxSet, vizFrames, animationRef, rafSeq>>

\* playback moves on, out of the second around highlightTime
PlaybackAdvances ==
  /\ vizMounted
  /\ vizPlaying
  /\ vizAtArtifact
  /\ vizAtArtifact' = FALSE
  /\ UNCHANGED <<notVisualizer, vizMounted, vizHighlight, vizPlaying, vizContexts,
                 vizCtxSet, vizFrames, animationRef, rafSeq>>

\* the "Jump to Artifact" button: currentTime is set and play() called; a
\* paused element fires its play event, a playing one does not
seekToArtifact ==
  /\ vizMounted
  /\ vizHighlight
  /\ rafSeq < MaxFrames
  /\ vizAtArtifact' = TRUE
  /\ vizPlaying' = TRUE
  /\ IF vizPlaying
     THEN UNCHANGED <<vizContexts, vizCtxSet, vizFrames, animationRef, rafSeq>>
     ELSE handlePlay
  /\ UNCHANGED <<notVisualizer, vizMounted, vizHighlight>>

\* a requested frame runs draw: without a canvas it returns, else it paints
\* and requests the next frame
draw(id) ==
  /\ id \in vizFrames
  /\ IF vizMounted
     THEN /\ rafSeq < MaxFrames
          /\ rafSeq' = rafSeq + 1
          /\ vizFrames' = (vizFrames \ {id}) \cup {rafSeq + 1}
          /\ animationRef' = rafSeq + 1
     ELSE /\ vizFrames' = vizFrames \ {id}
          /\ UNCHANGED <<animationRef, rafSeq>>
  /\ UNCHANGED <<notVisualizer, vizMounted, vizHighlight, vizPlaying, vizAtArtifact,
                 vizContexts, vizCtxSet>>

\* the cleanup of the mount effect: the frame animationRef names is
\* cancelled and the context closed; the audio element goes with the component
VisualizerUnmount ==
  /\ vizMounted
  /\ vizMounted' = FALSE
  /\ vizPlaying' = FALSE
  /\ vizFrames' = vizFrames \ {animationRef}
  /\ UNCHANGED <<notVisualizer, vizHighlight, vizAtArtifact, vizContexts, vizCtxSet,
                 animationRef, rafSeq>>

VisualizerInit ==
  /\ apiKey = Str("k-123")
  /\ AppInit
  /\ CockpitIdle
  /\ AudioIdle
  /\ ScamIdle
  /\ TranscriberIdle
  /\ VisualizerFresh
  /\ vizHighlight \in BOOLEAN

VisualizerNext ==
  \/ PlayPressed
  \/ PausePressed
  \/ PlaybackAdvances
  \/ seekToArtifact
  \/ \E id \in vizFrames : draw(id)
  \/ VisualizerUnmount

VisualizerSpec == VisualizerInit /\ [][VisualizerNext]_vars

\* ================================================================= claims

\* the analysis requests started by handleFileSelect and not yet resolved
Outstanding == {i \in DOMAIN tasks : tasks[i].stage = "inflight"}

\* C1: at most one analysis request is outstanding per session at any time;
\* handleFileSelect is never entered while an earlier request is unresolved.
C1_SingleOutstanding == Cardinality(Outstanding) <= 1

\* C2: when the mode was switched while an analysis was in flight, the
\* resolution of that analysis sets neither the result nor the error.
C2_StaleOutcomeDiscarded ==
  [][(lastOp'.name = "resolve" /\ tasks[lastOp'.task].switched)
       => (result' = result /\ error' = error)]_vars

\* C3: immediately after handleModeChange(newMode) the mode equals newMode
\* and the held file, result and error are all absent, whatever the state
\* the switch was made in.
C3_ModeChangeResets ==
  lastOp.name = "handleModeChange"
    => (mode = lastOp.arg /\ fileData = Null /\ result = Null /\ error = Null)

\* C3 witness: the mode was switched to IMAGE while an analysis was in flight
C3_SwitchedWhileAnalyzing ==
  /\ lastOp.name = "handleModeChange"
  /\ lastOp.arg = IMAGE
  /\ isAnalyzing
  /\ \E i \in Outstanding : tasks[i].switched

\* C4: after resetAnalysis (Remove, Try Again, Analyze New File) the file, the
\* result and the error are all absent; the one step clears the three.
C4_ResetDiscardsAll ==
  lastOp.name = "resetAnalysis"
    => (fileData = Null /\ result = Null /\ error = Null)

\* C4 witness: a reset has just run and the upload area is back
C4_AfterReset ==
  /\ lastOp.name = "resetAnalysis"
  /\ UploadMounted
  /\ ~isAnalyzing

\* C5: a successful analysis leaves the session holding the returned result
\* and no error; a failed one leaves it holding a non-empty message (the
\* failure's own, or the generic fallback) and no result.
C5_OutcomeHeld ==
  (lastOp.name = "resolve" \/ (lastOp.name = "handleFileSelect" /\ lastOp.outcome # NoOutcome))
    => IF lastOp.outcome.ok
       THEN result = lastOp.outcome.value /\ error = Null
       ELSE /\ error = Str(IF lastOp.outcome.message = "" THEN FallbackMsg
                              ELSE lastOp.outcome.message)
            /\ error.text # ""
            /\ result = Null

\* C6: the session never holds both a result and an error.
C6_NeverResultAndError == ~(result # Null /\ error # Null)

\* C7: the operation invoked on entering Analyzing is the one for the mode
\* that is active at that moment: the audio operation iff the mode is AUDIO.
C7_OperationOfActiveMode ==
  lastOp.name = "handleFileSelect"
    => (lastOp.arg = ANALYZE_AUDIO <=> mode = AUDIO)

\* the files whose declared media type is audio/* and image/*
AudioFiles == {"voice.wav", "song.mp3"}
ImageFiles == {"face.png"}
Matching(m) == IF m = AUDIO THEN AudioFiles ELSE ImageFiles

\* C8: processFile accepts a file exactly when its declared media type matches
\* the active mode; a non-matching file sets the validation error and starts
\* no reader, so that no file of a non-matching type is ever on its way to
\* onFileSelect.
C8_IntakeValidation ==
  /\ \A i \in DOMAIN tasks : tasks[i].file.name \in Matching(tasks[i].pickMode)
  /\ lastOp.name = "processFile" =>
       IF lastOp.arg \in Matching(mode)
       THEN /\ uploadError = Null
            /\ tasks # <<>>
            /\ tasks[Len(tasks)].file.name = lastOp.arg
            /\ tasks[Len(tasks)].stage = "reading"
            /\ tasks[Len(tasks)].pickMode = mode
       ELSE uploadError = Str(IF mode = AUDIO THEN InvalidAudioMsg ELSE InvalidImageMsg)

\* C8 witness: a file of type "audio" (no subtype) was refused in AUDIO mode
C8_RejectedNearMiss ==
  /\ lastOp.name = "processFile"
  /\ lastOp.arg = "audio.bin"
  /\ mode = AUDIO
  /\ uploadError = Str(InvalidAudioMsg)

\* no credential is configured: API_KEY is undefined or empty
NoCredential == apiKey \in {Null, Str("")}

\* C9: without a credential every service operation fails with the
\* configuration error and no request is ever sent upstream.
C9_NoKeyFailsFast ==
  NoCredential
    => /\ svcSent = 0
       /\ svcStage \in {"idle", "failed"}
       /\ svcCalls > 0 => (svcStage = "failed" /\ svcOutcome = Thrown(ApiKeyMissingMsg))

\* C9 witness: connectLiveSession was invoked with an empty API_KEY
C9_LiveConnectWithoutKey ==
  /\ apiKey = Str("")
  /\ svcOp = CONNECT_LIVE
  /\ svcStage = "failed"

\* the response texts that are well-formed JSON
WellFormedTexts == {AudioJson, VisualJson, EmptyObject}
AnalysisOps == {ANALYZE_AUDIO, ANALYZE_IMAGE}

\* C10: analyzeAudio and analyzeImage return a result exactly when the
\* upstream call succeeded with a present text that is well-formed JSON; in
\* every other case they throw and return nothing.
C10_ResultOnlyFromParsedText ==
  (svcOp \in AnalysisOps /\ svcStage \in {"returned", "failed"})
    => /\ svcStage = "returned" <=>
            /\ ~NoCredential
            /\ svcResp.kind = "ok"
            /\ svcResp.hasText
            /\ svcResp.text \in WellFormedTexts
       /\ svcStage = "returned" => (svcOutcome.ok /\ svcOutcome.value # Null)
       /\ svcStage = "failed" => (~svcOutcome.ok /\ svcOutcome.value = Null)

\* C10 witness: analyzeImage threw on a text cut off before the closing brace
C10_TruncatedTextThrows ==
  /\ svcOp = ANALYZE_IMAGE
  /\ svcResp.hasText
  /\ svcResp.text = Truncated
  /\ svcStage = "failed"
  /\ svcOutcome = Thrown(InvalidJsonMsg)

\* the operations whose result is plain parsed JSON without a message of
\* their own on a parse failure
PlainOps == {TRANSCRIBE_AUDIO, CHECK_SCAM_RISK}

\* C11: transcribeAudio and checkScamRisk never return a substitute result:
\* whenever one of them returns a value, the upstream call resolved with a
\* text that is present and well-formed JSON; otherwise it fails.
C11_PlainOpsNeverSubstitute ==
  (svcOp \in PlainOps /\ svcStage = "returned")
    => /\ svcResp.kind = "ok"
       /\ svcResp.hasText
       /\ svcResp.text \in WellFormedTexts
       /\ svcOutcome.value.kind # "substitute"


\* C12: for every analysis that completed successfully, exactly one of the
\* type guards isAudioResult and isVisualResult is true of its result.
C12_ExactlyOneGuard ==
  (svcOp \in AnalysisOps /\ svcStage = "returned")
    => (isAudioResult(svcOutcome.value) # isVisualResult(svcOutcome.value))


\* C13: for the held result and the active mode the renderer selects exactly
\* one of the two layouts: never both, and never nothing for a completed
\* analysis.
C13_ExactlyOneLayout ==
  Displayed => Cardinality(Layouts(result, mode, TRUE)) = 1


\* the band of a risk score as the bands are specified, and what each band
\* looks like on the verdict bar, the gauge and the label
BandOf(s) ==
  IF s \in 0..20 THEN "authentic"
  ELSE IF s \in 21..70 THEN "suspicious"
  ELSE IF s \in 71..100 THEN "synthetic" ELSE "none"
BandLook ==
  [authentic  |-> [banner |-> "border-emerald-500", gauge |-> "#10b981", label |-> "Authentic"],
   suspicious |-> [banner |-> "border-yellow-500", gauge |-> "#eab308", label |-> "Suspicious"],
   synthetic  |-> [banner |-> "border-red-500", gauge |-> "#ef4444", label |-> "High Probability"]]

\* C14: every integer risk score from 0 to 100 is shown in exactly one band,
\* 0..20 authentic (green), 21..70 suspicious (yellow), 71..100 synthetic
\* (red), and the verdict bar, the gauge and the label all show that band.
C14_OneBandEverywhere ==
  (view # NotRendered /\ riskScore \in 0..100) => view = BandLook[BandOf(riskScore)]

\* C14 witness: the scores at the two band limits have been rendered
C14_LimitRendered == view # NotRendered /\ riskScore \in {20, 21, 70, 71}


RECURSIVE DecimalValue(_)
DecimalValue(d) ==
  IF Len(d) = 0 THEN -1
  ELSE LET last == d[Len(d)]
           v == IF \E k \in 0..9 : Digit[k + 1] = last
                THEN CHOOSE k \in 0..9 : Digit[k + 1] = last ELSE -1
       IN  IF v = -1 THEN -1
           ELSE IF Len(d) = 1 THEN v
           ELSE LET front == DecimalValue(SubSeq(d, 1, Len(d) - 1))
                IN  IF front = -1 THEN -1 ELSE 10 * front + v

\* C20: for every integer risk score from 0 to 100 the exported chart's centre
\* label reads '<risk_score>%' and its slice has the band colour: red for
\* 71..100, yellow for 21..70, green for 0..20.
C20_ChartLabelAndColour ==
  (report.chart.drawn /\ riskScore \in 0..100)
    => LET l == report.chart.label
       IN  /\ Len(l) >= 2
           /\ l[Len(l)] = "%"
           /\ DecimalValue(SubSeq(l, 1, Len(l) - 1)) = riskScore
           /\ (Len(l) > 2 => l[1] # "0")
           /\ report.chart.color = BandLook[BandOf(riskScore)].gauge

\* C20 witness: a chart was exported for the lowest suspicious score
C20_SuspiciousChart ==
  report.chart.drawn /\ riskScore = 21 /\ report.chart.color = "#eab308"


\* C15: within one live session nextStartTime never decreases: the clamp to
\* the audio clock and the advance by a segment's duration both leave it
\* greater than or equal to its previous value.
C15_CursorMonotone ==
  [][liveSession' = liveSession => nextStartTime' >= nextStartTime]_vars

\* C15 witness: a message was clamped while the cursor was ahead of the clock
C15_CursorAheadAtMessage ==
  liveOp = "onmessage" /\ ctxOpen /\ nextStartTime > audioClock /\ Len(segments) >= 1

\* C16: the playback intervals of any two segments of one session do not
\* intersect, whatever the interleaving of messages, decode completions and
\* clock advances.
C16_NoOverlap ==
  \A i, j \in DOMAIN segments :
    i < j => (segments[i].end <= segments[j].begin \/ segments[j].end <= segments[i].begin)


\* the quiet period after the last chunk has run out and its timeout has run
BurstOver ==
  burst.chunks > 0 /\ wallClock - lastChunkAt >= QuietPeriod /\ DueTimers = {}

\* C17 as stated: a burst of chunks less than the quiet period apart causes
\* exactly one checkScamRisk call.
C17_ExactlyOneCallPerBurst == BurstOver => burst.calls = 1

\* C17 amended: at most one timeout is pending, it is the one of the last
\* chunk (each chunk cancels the one before), and a burst causes at most one
\* checkScamRisk call: one, issued after the quiet period with the text
\* accumulated at the last chunk, when that text is longer than 10
\* characters, and none otherwise.
C17_DebouncedPerBurst ==
  /\ Cardinality(timers) <= 1
  /\ \A t \in timers : /\ t.id = timeoutRef
                       /\ t.text = lastChunkText
                       /\ t.due = lastChunkAt + QuietPeriod
  /\ (timers # {} => burst.calls = 0)
  /\ (BurstOver => burst.calls = IF Len(lastChunkText) > 10 THEN 1 ELSE 0)
  /\ ((scamOp.name = "timer" /\ scamOp.called)
        => (scamOp.text = lastChunkText /\ scamOp.at >= lastChunkAt + 1500))

\* C17 witness: a burst of two chunks or more is over and caused one call
C17_BurstOfSeveralChunks == BurstOver /\ burst.chunks >= 2 /\ burst.calls = 1

\* C18: after any checkScamRisk call completes with a result, the held
\* ScamRiskResult is exactly that result, whatever its risk level.
C18_LatestResultHeld ==
  (scamOp.name = "checked" /\ scamOp.outcome.ok) => scamRisk = scamOp.outcome.value


\* the artifact rows of the report exported last, and its bottom limit
ExportedRows == IF report.done THEN report.rows
                ELSE IF audioReport.done THEN audioReport.rows ELSE <<>>
RowLimit == IF report.done THEN 297 - 40 ELSE 297 - 30

\* C21: before each artifact row is drawn the vertical cursor is at most
\* pageHeight minus the bottom threshold (30 audio, 40 image); when it was
\* beyond, a page was added and the cursor reset to 20; no row starts below
\* the limit.
C21_RowsAboveLimit ==
  \A i \in DOMAIN ExportedRows :
    LET r == ExportedRows[i]
    IN  /\ r.y <= RowLimit
        /\ (r.before > RowLimit <=> r.broke)
        /\ (r.broke => r.y = 20)
        /\ (~r.broke => r.y = r.before)

\* C21 witness: a page was added in the middle of an artifact table
C21_BreakInsideTable ==
  \E i \in DOMAIN ExportedRows : i > 1 /\ ExportedRows[i].broke


\* C30: the percentage written in the centre of an exported audio chart is an
\* integer between 0 and 100, whatever the score string of the result.
C30_ChartPercentInRange ==
  (audioReport.done /\ audioReport.chart.drawn) =>
    LET label == audioReport.chart.label
    IN  /\ Len(label) >= 2
        /\ label[Len(label)] = "%"
        /\ DecimalValue(SubSeq(label, 1, Len(label) - 1)) \in 0..100


\* C22: a bounding box [ymin, xmin, ymax, xmax] is drawn at those thousandths
\* of the image as rendered: its top edge ymin/1000 of the picture's height
\* below the picture's top, its left edge xmin/1000 of the picture's width
\* right of the picture's left, and so on for height and width; the box
\* [0, 0, 500, 1000] is the top half of the picture for every native size.
BoxOnPicture ==
  LET img == overlay.image
      b == overlay.box
  IN  [top    |-> img.top + (b[1] * img.height) \div 1000,
       left   |-> img.left + (b[2] * img.width) \div 1000,
       height |-> ((b[3] - b[1]) * img.height) \div 1000,
       width  |-> ((b[4] - b[2]) * img.width) \div 1000]
C22_BoxOverPicture ==
  overlay.kind = "box_2d" =>
    /\ overlay.rect = BoxOnPicture
    /\ overlay.box = <<0, 0, 500, 1000>> =>
          overlay.rect = [top |-> overlay.image.top, left |-> overlay.image.left,
                          height |-> overlay.image.height \div 2,
                          width |-> overlay.image.width]


\* C23: every transcribeAudio call is made over the chunks of the recording
\* whose stop caused it and of no other, and no recording causes two calls.
C23_OwnChunksOnly ==
  /\ \A i \in 1..Len(transCalls) :
       \A k \in 1..Len(transCalls[i].chunks) :
         transCalls[i].chunks[k] = transCalls[i].rec
  /\ \A i, j \in 1..Len(transCalls) :
       transCalls[i].rec = transCalls[j].rec => i = j


\* C24: when the read of an accepted file fails, the upload error becomes the
\* read-failure message, which is neither validation message, and the file
\* goes no further: the held file, the analysing flag and the outstanding
\* requests are as they were and the file's entry is gone.
C24_ReadErrorReported ==
  [][(lastOp'.name = "readerError" /\ tasks' # tasks) =>
       /\ uploadError' = Str(ReadFailedMsg)
       /\ \A m \in AnalysisMode, f \in Files : ValidationError(m, f) # Str(ReadFailedMsg)
       /\ Len(tasks') = Len(tasks) - 1
       /\ fileData' = fileData
       /\ isAnalyzing' = isAnalyzing
       /\ Cardinality(Outstanding') = Cardinality(Outstanding)]_vars


\* C25: the analysing flag is set exactly while an analysis request started
\* by handleFileSelect has not resolved.
C25_AnalyzingIffOutstanding == isAnalyzing <=> (Outstanding # {})


\* C26: the entry a turnComplete appends to the transcript holds the user
\* text and the model text accumulated since the previous turnComplete, and
\* the current turn is empty afterwards.
C26_EntryIsCurrentTurn ==
  [][Len(transcript') = Len(transcript) + 1 =>
       /\ transcript'[Len(transcript')] = [user |-> userText, model |-> modelText]
       /\ userText' = <<>>
       /\ modelText' = <<>>]_vars


\* C27: whenever the monitor is not connected, the microphone stream and the
\* audio contexts are released and the set of playback sources is empty.
C27_ReleasedWhenDisconnected ==
  ~isConnected => (~streamOpen /\ ~ctxOpen /\ sourcesRef = {})


\* C28: a scam check whose timeout was set in an earlier session than the
\* running one never changes the displayed risk.
C28_NoRiskFromEarlierSession ==
  [][(scamOp'.name = "checked" /\ scamCalls' # scamCalls /\ scamRisk' # scamRisk)
       => scamOp'.session = liveSession']_vars


\* C29: an AudioVisualizer never has more than one draw frame requested (one
\* draw loop), creates at most one audio context, and has no draw frame
\* requested once it is unmounted.
C29_OneDrawLoop ==
  /\ Cardinality(vizFrames) <= 1
  /\ vizContexts <= 1
  /\ (~vizMounted => vizFrames = {})

====
